---- MODULE Spec2Model ----
(***************************************************************************)
(* A model of ghstack's fake GitHub GraphQL backend (github_fake.py): the  *)
(* in-memory store GitHubState, the resolvers of Root, Repository and      *)
(* PullRequest, and the facade FakeGitHubGraphQLEndpoint.graphql.          *)
(***************************************************************************)
EXTENDS Integers, Sequences, FiniteSets, TLC

(***************************************************************************)
(* Bounds of the model.                                                    *)
(***************************************************************************)
\* how many identifiers next_id may hand out in one behaviour
MaxIds == 3
\* how many pull requests the store may hold in one behaviour
MaxPullRequests == 2
\* how many root fields one GraphQL document may select
MaxFields == 2
\* how many commit nodes the response to forensics.main may hold
MaxNodes == 2

(***************************************************************************)
(* Program constants.                                                      *)
(***************************************************************************)
\* GitHubState.__init__: self._next_id = 5000
FirstId == 5000
\* GitHubState.__init__: self._next_pull_request_number[GraphQLId("1000")] = 500
FirstPullRequestNumber == 500
\* GitHubState.__init__: the id of the seeded repository
SeedRepositoryId == "1000"

\* Python's None
None == "None"

(***************************************************************************)
(* Python dicts: insertion-ordered sequences of (key, value) entries.      *)
(***************************************************************************)
\* key in d
DictHas(d, k) == \E i \in 1..Len(d) : d[i].key = k

\* d[key] for a key that is present
DictGet(d, k) == d[CHOOSE i \in 1..Len(d) : d[i].key = k].value

\* d[key] = value, with every other entry dropped
DictSet_only(d, k, v) == <<[key |-> k, value |-> v]>>

\* d[key] = value: an existing key keeps its position, a new key goes last
DictSet(d, k, v) ==
    IF DictHas(d, k)
    THEN [i \in 1..Len(d) |-> IF d[i].key = k THEN [key |-> k, value |-> v] ELSE d[i]]
    ELSE Append(d, [key |-> k, value |-> v])

\* d.values(), in iteration order
DictValues(d) == [i \in 1..Len(d) |-> d[i].value]

\* d.get(key): None when the key is absent
InputGet(input, k) == IF k \in DOMAIN input THEN input[k] ELSE None

(***************************************************************************)
(* Outcomes of a call: a returned value or a raised exception.             *)
(***************************************************************************)
Return(v) == [kind |-> "return", value |-> v]
Raise(exc, msg) == [kind |-> "raise", exc |-> exc, msg |-> msg]

\* str(KeyError(key)) for a string key: the repr of the key
KeyErrorMessage(k) == "'" \o k \o "'"

(***************************************************************************)
(* GitHubState                                                             *)
(***************************************************************************)
\* the seeded Repository object
SeedRepository ==
    [kind |-> "Repository", id |-> SeedRepositoryId,
     name |-> "pytorch", nameWithOwner |-> "pytorch/pytorch"]

\* GitHubState.__init__
GitHubStateInit ==
    [repositories |-> <<[key |-> SeedRepositoryId, value |-> SeedRepository]>>,
     pull_requests |-> <<>>,
     _next_id |-> FirstId,
     _next_pull_request_number |->
         <<[key |-> SeedRepositoryId, value |-> FirstPullRequestNumber]>>]

\* GitHubState.next_id, with the increment left out
next_id_stuck(s) == [r |-> ToString(s._next_id), s |-> s]

\* GitHubState.next_id: the id handed out and the state after
next_id(s) ==
    [r |-> ToString(s._next_id),
     s |-> [s EXCEPT !._next_id = @ + 1]]

\* GitHubState.next_pull_request_number, with the increment left out
next_pull_request_number_stuck(s, repo_id) ==
    IF ~DictHas(s._next_pull_request_number, repo_id)
    THEN [outcome |-> Raise("KeyError", KeyErrorMessage(repo_id)), s |-> s]
    ELSE [outcome |-> Return(DictGet(s._next_pull_request_number, repo_id)), s |-> s]

\* GitHubState.next_pull_request_number, with a counter started at 1 for a
\* repository id that has none
next_pull_request_number_default(s, repo_id) ==
    LET r == IF DictHas(s._next_pull_request_number, repo_id)
             THEN DictGet(s._next_pull_request_number, repo_id) ELSE 1
    IN [outcome |-> Return(r),
        s |-> [s EXCEPT !._next_pull_request_number = DictSet(@, repo_id, r + 1)]]

\* GitHubState.next_pull_request_number: the number handed out (or the
\* KeyError of an unseeded repository id) and the state after
next_pull_request_number(s, repo_id) ==
    IF ~DictHas(s._next_pull_request_number, repo_id)
    THEN [outcome |-> Raise("KeyError", KeyErrorMessage(repo_id)), s |-> s]
    ELSE LET r == DictGet(s._next_pull_request_number, repo_id)
         IN [outcome |-> Return(r),
             s |-> [s EXCEPT !._next_pull_request_number = DictSet(@, repo_id, r + 1)]]

(***************************************************************************)
(* PullRequest and Repository                                              *)
(***************************************************************************)
\* PullRequest.repository: info.context.repositories[self._repository]
PullRequest_repository(s, pr) ==
    IF DictHas(s.repositories, pr._repository)
    THEN Return(DictGet(s.repositories, pr._repository))
    ELSE Raise("KeyError", KeyErrorMessage(pr._repository))

\* the scan of Repository.pullRequests over the values from position i on:
\* the pull requests kept so far, or the first exception of pr.repository
RECURSIVE FilterPullRequests(_, _, _, _, _)
FilterPullRequests(s, self, prs, i, kept) ==
    IF i > Len(prs) THEN Return([nodes |-> kept])
    ELSE LET owner == PullRequest_repository(s, prs[i])
         IN IF owner.kind = "raise" THEN owner
            ELSE FilterPullRequests(s, self, prs, i + 1,
                     IF self = owner.value THEN Append(kept, prs[i]) ELSE kept)

\* Repository.pullRequests, returning the newest pull request first
Repository_pullRequests_reversed(s, self) ==
    LET r == FilterPullRequests(s, self, DictValues(s.pull_requests), 1, <<>>)
    IN IF r.kind = "raise" THEN r
       ELSE Return([nodes |-> [i \in 1..Len(r.value.nodes) |->
                                  r.value.nodes[Len(r.value.nodes) + 1 - i]]])

\* Repository.pullRequests: a PullRequestConnection
Repository_pullRequests(s, self) ==
    FilterPullRequests(s, self, DictValues(s.pull_requests), 1, <<>>)

\* the loop of Repository.pullRequest over the values from position i on
RECURSIVE ScanPullRequest(_, _, _, _, _)
ScanPullRequest(s, self, prs, i, number) ==
    IF i > Len(prs)
    THEN Raise("RuntimeError",
               "unrecognized pull request #" \o ToString(number)
               \o " in repository " \o self.nameWithOwner)
    ELSE LET owner == PullRequest_repository(s, prs[i])
         IN IF owner.kind = "raise" THEN owner
            ELSE IF self = owner.value /\ prs[i].number = number THEN Return(prs[i])
            ELSE ScanPullRequest(s, self, prs, i + 1, number)

\* the loop of Repository.pullRequest, with the test of the number left out
RECURSIVE ScanAnyPullRequest(_, _, _, _, _)
ScanAnyPullRequest(s, self, prs, i, number) ==
    IF i > Len(prs)
    THEN Raise("RuntimeError",
               "unrecognized pull request #" \o ToString(number)
               \o " in repository " \o self.nameWithOwner)
    ELSE LET owner == PullRequest_repository(s, prs[i])
         IN IF owner.kind = "raise" THEN owner
            ELSE IF self = owner.value THEN Return(prs[i])
            ELSE ScanAnyPullRequest(s, self, prs, i + 1, number)

\* Repository.pullRequest, returning the first pull request of the repository
Repository_pullRequest_any_number(s, self, number) ==
    ScanAnyPullRequest(s, self, DictValues(s.pull_requests), 1, number)

\* Repository.pullRequest
Repository_pullRequest(s, self, number) ==
    ScanPullRequest(s, self, DictValues(s.pull_requests), 1, number)

(***************************************************************************)
(* Root                                                                    *)
(***************************************************************************)
\* the scan of Root.repository over the repositories from position i on
RECURSIVE FindRepository(_, _, _)
FindRepository(repos, nameWithOwner, i) ==
    IF i > Len(repos) THEN Raise("RuntimeError", "unknown repository " \o nameWithOwner)
    ELSE IF repos[i].nameWithOwner = nameWithOwner THEN Return(repos[i])
    ELSE FindRepository(repos, nameWithOwner, i + 1)

\* Root.repository
Root_repository(s, owner, name) ==
    FindRepository(DictValues(s.repositories), owner \o "/" \o name, 1)

\* Root.node, looking only among the repositories
Root_node_repositories_only(s, id) ==
    IF DictHas(s.repositories, id) THEN Return(DictGet(s.repositories, id))
    ELSE Raise("RuntimeError", "unknown id " \o id)

\* Root.node, returning None for an id it does not know
Root_node_silent(s, id) ==
    IF DictHas(s.repositories, id) THEN Return(DictGet(s.repositories, id))
    ELSE IF DictHas(s.pull_requests, id) THEN Return(DictGet(s.pull_requests, id))
    ELSE Return(None)

\* Root.node
Root_node(s, id) ==
    IF DictHas(s.repositories, id) THEN Return(DictGet(s.repositories, id))
    ELSE IF DictHas(s.pull_requests, id) THEN Return(DictGet(s.pull_requests, id))
    ELSE Raise("RuntimeError", "unknown id " \o id)

\* the assignments of Root.updatePullRequest, with the tests for None left out
UpdatedPullRequest_applies_null(pr, input) ==
    LET p1 == IF "title" \in DOMAIN input
              THEN [pr EXCEPT !.title = input.title] ELSE pr
        p2 == IF "baseRefName" \in DOMAIN input
              THEN [p1 EXCEPT !.baseRefName = input.baseRefName] ELSE p1
        p3 == IF "body" \in DOMAIN input
              THEN [p2 EXCEPT !.body = input.body] ELSE p2
    IN p3

\* the assignments of Root.updatePullRequest, with the new base branch written
\* to headRefName
UpdatedPullRequest_head(pr, input) ==
    LET p1 == IF "title" \in DOMAIN input /\ input.title # None
              THEN [pr EXCEPT !.title = input.title] ELSE pr
        p2 == IF "baseRefName" \in DOMAIN input /\ input.baseRefName # None
              THEN [p1 EXCEPT !.headRefName = input.baseRefName] ELSE p1
        p3 == IF "body" \in DOMAIN input /\ input.body # None
              THEN [p2 EXCEPT !.body = input.body] ELSE p2
    IN p3

\* the assignments of Root.updatePullRequest to the pull request pr
UpdatedPullRequest(pr, input) ==
    LET p1 == IF "title" \in DOMAIN input /\ input.title # None
              THEN [pr EXCEPT !.title = input.title] ELSE pr
        p2 == IF "baseRefName" \in DOMAIN input /\ input.baseRefName # None
              THEN [p1 EXCEPT !.baseRefName = input.baseRefName] ELSE p1
        p3 == IF "body" \in DOMAIN input /\ input.body # None
              THEN [p2 EXCEPT !.body = input.body] ELSE p2
    IN p3

\* Root.updatePullRequest, with a missing pull request inserted instead of
\* raising
Root_updatePullRequest_upsert(s, input) ==
    LET old == IF DictHas(s.pull_requests, input.pullRequestId)
               THEN DictGet(s.pull_requests, input.pullRequestId)
               ELSE [kind |-> "PullRequest", id |-> input.pullRequestId,
                     _repository |-> SeedRepositoryId, number |-> 0, url |-> "",
                     baseRefName |-> "", headRefName |-> "", title |-> "", body |-> ""]
        pr == UpdatedPullRequest(old, input)
    IN [outcome |-> Return([clientMutationId |-> InputGet(input, "clientMutationId"),
                            pullRequest |-> pr]),
        s |-> [s EXCEPT !.pull_requests = DictSet(@, input.pullRequestId, pr)]]

\* Root.updatePullRequest: the outcome and the state after
Root_updatePullRequest(s, input) ==
    IF ~DictHas(s.pull_requests, input.pullRequestId)
    THEN [outcome |-> Raise("KeyError", KeyErrorMessage(input.pullRequestId)), s |-> s]
    ELSE LET pr == UpdatedPullRequest(DictGet(s.pull_requests, input.pullRequestId), input)
         IN [outcome |-> Return([clientMutationId |-> InputGet(input, "clientMutationId"),
                                 pullRequest |-> pr]),
             s |-> [s EXCEPT !.pull_requests = DictSet(@, input.pullRequestId, pr)]]

\* the url of a new pull request, built from the repository's short name
PullRequestUrl_short_name(repo, number) ==
    "https://github.com/" \o repo.name \o "/pull/" \o ToString(number)

\* the url of a new pull request
PullRequestUrl(repo, number) ==
    "https://github.com/" \o repo.nameWithOwner \o "/pull/" \o ToString(number)

\* Root.createPullRequest, with clientMutationId taken as an idempotency key:
\* a call that carries one and repeats the inputs of a stored pull request
\* returns that pull request
Root_createPullRequest_dedup(s, input) ==
    LET a == next_id(s)
        id == a.r
        prs == DictValues(a.s.pull_requests)
        same == {i \in 1..Len(prs) :
                    /\ prs[i]._repository = input.ownerId
                    /\ prs[i].baseRefName = input.baseRefName
                    /\ prs[i].headRefName = input.headRefName
                    /\ prs[i].title = input.title
                    /\ prs[i].body = input.body}
    IN IF ~DictHas(a.s.repositories, input.ownerId)
       THEN [outcome |-> Raise("KeyError", KeyErrorMessage(input.ownerId)), s |-> a.s]
       ELSE IF "clientMutationId" \in DOMAIN input /\ same # {}
       THEN [outcome |-> Return([clientMutationId |-> input.clientMutationId,
                                 pullRequest |-> prs[CHOOSE i \in same : TRUE]]),
             s |-> a.s]
       ELSE LET repo == DictGet(a.s.repositories, input.ownerId)
                n == next_pull_request_number(a.s, input.ownerId)
                number == n.outcome.value
                pr == [kind |-> "PullRequest",
                       id |-> id,
                       _repository |-> input.ownerId,
                       number |-> number,
                       url |-> "https://github.com/" \o repo.nameWithOwner
                               \o "/pull/" \o ToString(number),
                       baseRefName |-> input.baseRefName,
                       headRefName |-> input.headRefName,
                       title |-> input.title,
                       body |-> input.body]
            IN [outcome |-> Return([clientMutationId |->
                                        InputGet(input, "clientMutationId"),
                                    pullRequest |-> pr]),
                s |-> [n.s EXCEPT !.pull_requests = DictSet(@, id, pr)]]

\* Root.createPullRequest, with a pull request inserted even when ownerId is
\* no repository of the store
Root_createPullRequest_unchecked(s, input) ==
    LET a == next_id(s)
        id == a.r
        known == DictHas(a.s.repositories, input.ownerId)
        n == next_pull_request_number(a.s, input.ownerId)
        number == IF n.outcome.kind = "return" THEN n.outcome.value ELSE 0
        pr == [kind |-> "PullRequest",
               id |-> id,
               _repository |-> input.ownerId,
               number |-> number,
               url |-> IF known
                       THEN "https://github.com/"
                            \o DictGet(a.s.repositories, input.ownerId).nameWithOwner
                            \o "/pull/" \o ToString(number)
                       ELSE "",
               baseRefName |-> input.baseRefName,
               headRefName |-> input.headRefName,
               title |-> input.title,
               body |-> input.body]
    IN [outcome |-> Return([clientMutationId |-> InputGet(input, "clientMutationId"),
                            pullRequest |-> pr]),
        s |-> [n.s EXCEPT !.pull_requests = DictSet(@, id, pr)]]

\* Root.createPullRequest: the outcome and the state after
Root_createPullRequest(s, input) ==
    LET a == next_id(s)
        id == a.r
    IN IF ~DictHas(a.s.repositories, input.ownerId)
       THEN [outcome |-> Raise("KeyError", KeyErrorMessage(input.ownerId)), s |-> a.s]
       ELSE LET repo == DictGet(a.s.repositories, input.ownerId)
                n == next_pull_request_number(a.s, input.ownerId)
            IN IF n.outcome.kind = "raise" THEN n
               ELSE LET number == n.outcome.value
                        pr == [kind |-> "PullRequest",
                               id |-> id,
                               _repository |-> input.ownerId,
                               number |-> number,
                               url |-> PullRequestUrl(repo, number),
                               baseRefName |-> input.baseRefName,
                               headRefName |-> input.headRefName,
                               title |-> input.title,
                               body |-> input.body]
                    IN [outcome |-> Return([clientMutationId |->
                                                InputGet(input, "clientMutationId"),
                                            pullRequest |-> pr]),
                        s |-> [n.s EXCEPT !.pull_requests = DictSet(@, id, pr)]]

(***************************************************************************)
(* The calls a client makes.                                               *)
(***************************************************************************)
\* marks a key that an input leaves out
Absent == "<absent>"

\* the input dict with the keys of r that are not left out
MakeInput(r) == [k \in {x \in DOMAIN r : r[x] # Absent} |-> r[k]]

\* the identifiers next_id can hand out within the bound
AllocatableIds == {ToString(FirstId + i) : i \in 0..(MaxIds - 1)}

\* an identifier that is never allocated
UnknownId == "9999"

\* the identifiers a client asks for
ClientIds == AllocatableIds \cup {SeedRepositoryId, UnknownId}

\* the correlation tokens a client sends
ClientMutationIds == {Absent, "m1"}

\* the pull request a client asks to update: the second identifier next_id
\* hands out (no entity's before it is allocated, or when the
\* createPullRequest that took it failed)
UpdateTargetId == ToString(FirstId + 1)

\* UpdatePullRequestInput: every combination of absent, null and set fields
\* for UpdateTargetId, and two inputs that name the seeded repository
UpdatePullRequestInputs ==
    {MakeInput([pullRequestId |-> UpdateTargetId, title |-> t, baseRefName |-> b,
                body |-> d, clientMutationId |-> c]) :
        t \in {Absent, None, "T2"}, b \in {Absent, None, "dev"},
        d \in {Absent, None, "B2"}, c \in ClientMutationIds}
    \cup
    {MakeInput([pullRequestId |-> SeedRepositoryId, title |-> t, baseRefName |-> t,
                body |-> t, clientMutationId |-> Absent]) : t \in {Absent, "T2"}}

\* CreatePullRequestInput
CreatePullRequestInputs ==
    {MakeInput([ownerId |-> o, baseRefName |-> "main", headRefName |-> "feature",
                title |-> "T", body |-> "B", clientMutationId |-> c]) :
        o \in {SeedRepositoryId, UnknownId}, c \in ClientMutationIds}

\* the owner and name arguments of repository(owner, name)
Owners == {"pytorch", "ezyang"}
Names == {"pytorch", "ghstack"}

\* the number arguments of pullRequest(number): the numbers the seeded
\* repository can hand out within the bound, and the one after them
QueryNumbers == {FirstPullRequestNumber + i : i \in 0..MaxPullRequests}

(***************************************************************************)
(* State                                                                   *)
(***************************************************************************)
VARIABLES
    context,    \* FakeGitHubGraphQLEndpoint.context: the GitHubState
    call,       \* the last call made
    result,     \* what the last call returned or raised
    numbers,    \* history: the numbers successful createPullRequest calls returned
    allocated,  \* history: the identifiers next_id handed out
    returned,   \* history: the entities returned to the client, the latest of each id
    trace       \* the resolver outcomes of the last graphql() call, in order

\* createPullRequest resolutions running in threads on the one store
VARIABLES
    pc,         \* where each thread is in createPullRequest
    frame,      \* the local variables of each thread's createPullRequest
    overlapped, \* history: whether a call began while another was running
    created     \* history: the pull requests the threads' calls returned

threads == <<pc, frame, overlapped, created>>

\* forensics.main
VARIABLES
    nodes,      \* the commit nodes of the GraphQL response
    main_pc,    \* where main is
    printed     \* the lines printed so far

forensics == <<nodes, main_pc, printed>>

vars == <<context, call, result, numbers, allocated, returned, trace,
          threads, forensics>>

\* the threads that call into the store
Threads == {"t1", "t2"}

\* the entities returned so far, with e the latest one of its id
Remember(seen, e) == {x \in seen : x.id # e.id} \cup {e}

\* FakeGitHubGraphQLEndpoint.__init__
Init ==
    /\ context = GitHubStateInit
    /\ call = [op |-> "init"]
    /\ result = [kind |-> "none"]
    /\ numbers = <<>>
    /\ allocated = <<>>
    /\ returned = {}
    /\ trace = <<>>
    /\ pc = [t \in Threads |-> "idle"]
    /\ frame = [t \in Threads |-> [input |-> None]]
    /\ overlapped = FALSE
    /\ created = <<>>
    /\ nodes = <<>>
    /\ main_pc = "idle"
    /\ printed = <<>>

\* a createPullRequest mutation
CreatePullRequest(input) ==
    /\ context._next_id < FirstId + MaxIds
    /\ DictHas(context.repositories, input.ownerId)
           => Len(context.pull_requests) < MaxPullRequests
    /\ LET r == Root_createPullRequest(context, input)
       IN /\ context' = r.s
          /\ call' = [op |-> "createPullRequest", input |-> input]
          /\ result' = r.outcome
          /\ numbers' = IF r.outcome.kind = "return"
                        THEN Append(numbers, [repository |-> input.ownerId,
                                              number |-> r.outcome.value.pullRequest.number])
                        ELSE numbers
          /\ allocated' = Append(allocated, next_id(context).r)
          /\ returned' = IF r.outcome.kind = "return"
                         THEN Remember(returned, r.outcome.value.pullRequest)
                         ELSE returned
    /\ UNCHANGED <<trace, threads, forensics>>

\* an updatePullRequest mutation
UpdatePullRequest(input) ==
    /\ LET r == Root_updatePullRequest(context, input)
       IN /\ context' = r.s
          /\ call' = [op |-> "updatePullRequest", input |-> input]
          /\ result' = r.outcome
          /\ returned' = IF r.outcome.kind = "return"
                         THEN Remember(returned, r.outcome.value.pullRequest)
                         ELSE returned
    /\ UNCHANGED <<numbers, allocated, trace, threads, forensics>>

\* a node(id) query
Node(id) ==
    /\ call' = [op |-> "node", id |-> id]
    /\ result' = Root_node(context, id)
    /\ UNCHANGED <<context, numbers, allocated, returned, trace, threads, forensics>>

\* a repository(owner, name) query
Repository(owner, name) ==
    /\ LET r == Root_repository(context, owner, name)
       IN /\ call' = [op |-> "repository", owner |-> owner, name |-> name]
          /\ result' = r
          /\ returned' = IF r.kind = "return" THEN Remember(returned, r.value)
                         ELSE returned
    /\ UNCHANGED <<context, numbers, allocated, trace, threads, forensics>>

\* a repository(owner, name) { pullRequests { nodes } } query
PullRequests(owner, name) ==
    /\ LET r == Root_repository(context, owner, name)
       IN /\ call' = [op |-> "pullRequests", owner |-> owner, name |-> name]
          /\ result' = IF r.kind = "raise" THEN r
                       ELSE Repository_pullRequests(context, r.value)
    /\ UNCHANGED <<context, numbers, allocated, returned, trace, threads, forensics>>

\* a repository(owner, name) { pullRequest(number) } query
PullRequest(owner, name, number) ==
    /\ LET r == Root_repository(context, owner, name)
       IN /\ call' = [op |-> "pullRequest", owner |-> owner, name |-> name,
                      number |-> number]
          /\ result' = IF r.kind = "raise" THEN r
                       ELSE Repository_pullRequest(context, r.value, number)
    /\ UNCHANGED <<context, numbers, allocated, returned, trace, threads, forensics>>

Next ==
    \/ \E input \in CreatePullRequestInputs : CreatePullRequest(input)
    \/ \E input \in UpdatePullRequestInputs : UpdatePullRequest(input)
    \/ \E id \in ClientIds : Node(id)
    \/ \E owner \in Owners, name \in Names : Repository(owner, name)
    \/ \E owner \in Owners, name \in Names : PullRequests(owner, name)
    \/ \E owner \in Owners, number \in QueryNumbers : PullRequest(owner, "pytorch", number)

Spec == Init /\ [][Next]_vars

(***************************************************************************)
(* The allocators of GitHubState called directly, beside createPullRequest.*)
(***************************************************************************)
\* the repository ids a caller asks a number for: the seeded repository's,
\* one that is never allocated and a pull request's
NumberedIds == {SeedRepositoryId, UnknownId, ToString(FirstId)}

\* context.next_id()
NextId ==
    /\ context._next_id < FirstId + MaxIds
    /\ LET a == next_id(context)
       IN /\ context' = a.s
          /\ call' = [op |-> "next_id"]
          /\ result' = Return(a.r)
          /\ allocated' = Append(allocated, a.r)
    /\ UNCHANGED <<numbers, returned, trace, threads, forensics>>

\* context.next_pull_request_number(repo_id)
NextPullRequestNumber(repo_id) ==
    /\ DictHas(context._next_pull_request_number, repo_id)
           => DictGet(context._next_pull_request_number, repo_id)
                  < FirstPullRequestNumber + MaxPullRequests
    /\ LET n == next_pull_request_number(context, repo_id)
       IN /\ context' = n.s
          /\ call' = [op |-> "next_pull_request_number", repo_id |-> repo_id]
          /\ result' = n.outcome
    /\ UNCHANGED <<numbers, allocated, returned, trace, threads, forensics>>

AllocatorNext ==
    \/ NextId
    \/ \E repo_id \in NumberedIds : NextPullRequestNumber(repo_id)
    \/ \E input \in CreatePullRequestInputs : CreatePullRequest(input)

\* the store with its allocators called directly
AllocatorSpec == Init /\ [][AllocatorNext]_vars

(***************************************************************************)
(* FakeGitHubGraphQLEndpoint.graphql                                       *)
(***************************************************************************)
\* the root fields of the Query and Mutation types that Root resolves
RootFields(operation) ==
    IF operation = "query" THEN {"repository", "node"}
    ELSE {"updatePullRequest", "createPullRequest"}

\* the resolver of one root field, called on the store s
ResolveField(s, f) ==
    CASE f.name = "createPullRequest" -> Root_createPullRequest(s, f.input)
      [] f.name = "updatePullRequest" -> Root_updatePullRequest(s, f.input)
      [] f.name = "node" -> [outcome |-> Root_node(s, f.id), s |-> s]
      [] f.name = "repository" ->
             [outcome |-> Root_repository(s, f.owner, f.name_), s |-> s]

\* the execution of the root fields from position i on, in document order:
\* each resolver is called once, a raised exception becomes an error and a
\* null in the data, and the next field sees the store the previous one left
RECURSIVE ExecuteFields(_, _, _)
ExecuteFields(fields, i, acc) ==
    IF i > Len(fields) THEN acc
    ELSE LET r == ResolveField(acc.s, fields[i])
             ok == r.outcome.kind = "return"
         IN ExecuteFields(fields, i + 1,
                [s |-> r.s,
                 data |-> Append(acc.data, IF ok THEN r.outcome ELSE Return(None)),
                 errors |-> IF ok THEN acc.errors
                            ELSE Append(acc.errors, r.outcome.msg),
                 resolved |-> Append(acc.resolved,
                                     [field |-> fields[i], outcome |-> r.outcome])])

\* the validation errors of a document: one for each selected field that the
\* operation's root type does not have
RECURSIVE ValidationErrors(_, _)
ValidationErrors(document, i) ==
    IF i > Len(document.fields) THEN <<>>
    ELSE (IF document.fields[i].name \in RootFields(document.operation) THEN <<>>
          ELSE <<"Cannot query field '" \o document.fields[i].name \o "'.">>)
         \o ValidationErrors(document, i + 1)

\* graphql.graphql_sync: the ExecutionResult (data, errors) of a document, the
\* store after, and the resolver calls made
graphql_sync(s, document) ==
    LET invalid == ValidationErrors(document, 1)
    IN IF Len(invalid) > 0
       THEN [s |-> s, data |-> None, errors |-> invalid, resolved |-> <<>>]
       ELSE ExecuteFields(document.fields, 1,
                          [s |-> s, data |-> <<>>, errors |-> <<>>, resolved |-> <<>>])

\* "\n".join(lines)
RECURSIVE JoinLines(_, _)
JoinLines(lines, i) ==
    IF i > Len(lines) THEN ""
    ELSE IF i = Len(lines) THEN lines[i]
    ELSE lines[i] \o "\n" \o JoinLines(lines, i + 1)

\* FakeGitHubGraphQLEndpoint.graphql, reporting only the first error and
\* returning whatever data there is otherwise
Endpoint_graphql_first_error(s, document) ==
    LET r == graphql_sync(s, document)
    IN [s |-> r.s,
        resolved |-> r.resolved,
        outcome |-> IF r.data = None
                    THEN Raise("RuntimeError",
                               "GraphQL query failed with errors:\n\n" \o r.errors[1])
                    ELSE Return([data |-> r.data])]

\* FakeGitHubGraphQLEndpoint.graphql: the outcome, the store after and the
\* resolver calls made
Endpoint_graphql(s, document) ==
    LET r == graphql_sync(s, document)
    IN [s |-> r.s,
        resolved |-> r.resolved,
        outcome |-> IF Len(r.errors) > 0
                    THEN Raise("RuntimeError",
                               "GraphQL query failed with errors:\n\n"
                               \o JoinLines(r.errors, 1))
                    ELSE Return([data |-> r.data])]

(***************************************************************************)
(* The calls of the facade: whole GraphQL documents.                       *)
(***************************************************************************)
\* the root fields a client selects in a query
QueryFields ==
    {[name |-> "node", id |-> SeedRepositoryId],
     [name |-> "node", id |-> UnknownId],
     [name |-> "repository", owner |-> "ezyang", name_ |-> "ghstack"],
     [name |-> "nope"]}

\* the root fields a client selects in a mutation
MutationFields ==
    {[name |-> "createPullRequest",
      input |-> MakeInput([ownerId |-> SeedRepositoryId, baseRefName |-> "main",
                           headRefName |-> "feature", title |-> "T", body |-> "B"])],
     [name |-> "createPullRequest",
      input |-> MakeInput([ownerId |-> UnknownId, baseRefName |-> "main",
                           headRefName |-> "feature", title |-> "T", body |-> "B"])],
     [name |-> "updatePullRequest",
      input |-> MakeInput([pullRequestId |-> UpdateTargetId, title |-> "T2"])]}

\* the sequences of 1..n elements of S
SeqsUpTo(S, n) == UNION {[1..k -> S] : k \in 1..n}

\* the documents a client sends
Documents ==
    {[operation |-> "query", fields |-> fs] : fs \in SeqsUpTo(QueryFields, MaxFields)}
    \cup
    {[operation |-> "mutation", fields |-> fs] : fs \in SeqsUpTo(MutationFields, MaxFields)}

\* endpoint.graphql(query, **variables)
Graphql(document) ==
    /\ LET r == Endpoint_graphql(context, document)
       IN /\ r.s._next_id <= FirstId + MaxIds
          /\ Len(r.s.pull_requests) <= MaxPullRequests
          /\ context' = r.s
          /\ call' = [op |-> "graphql", document |-> document]
          /\ result' = r.outcome
          /\ trace' = r.resolved
    /\ UNCHANGED <<numbers, allocated, returned, threads, forensics>>

FacadeNext == \E document \in Documents : Graphql(document)

\* the store driven only through the facade
FacadeSpec == Init /\ [][FacadeNext]_vars

(***************************************************************************)
(* createPullRequest called from threads with no lock: each read and each  *)
(* write of a counter or of the pull-request dict is a step of its own.    *)
(***************************************************************************)
\* the read of self._next_id
LoadNextId(s) == s._next_id

\* the write of self._next_id += 1, with the increment left out
StoreNextId_stuck(s, loaded) == [s EXCEPT !._next_id = loaded]

\* the write of self._next_id += 1, after the read gave loaded
StoreNextId(s, loaded) == [s EXCEPT !._next_id = loaded + 1]

\* the read of self._next_pull_request_number[repo_id]
LoadNumber(s, repo_id) == DictGet(s._next_pull_request_number, repo_id)

\* the write of self._next_pull_request_number[repo_id] += 1, after the read
\* gave loaded
StoreNumber(s, repo_id, loaded) ==
    [s EXCEPT !._next_pull_request_number = DictSet(@, repo_id, loaded + 1)]

\* the inputs the threads call createPullRequest with
ThreadInputs == {input \in CreatePullRequestInputs : "clientMutationId" \notin DOMAIN input}

\* the threads inside createPullRequest whose call can still succeed
Succeeding ==
    {u \in Threads : pc[u] # "idle" /\ frame[u].input.ownerId = SeedRepositoryId}

\* thread t enters createPullRequest(input)
ThreadCall(t, input) ==
    /\ pc[t] = "idle"
    /\ Len(allocated) + Cardinality({u \in Threads : pc[u] = "next_id"}) < MaxIds
    /\ input.ownerId = SeedRepositoryId
           => Len(created) + Cardinality(Succeeding) < MaxPullRequests
    /\ pc' = [pc EXCEPT ![t] = "next_id"]
    /\ frame' = [frame EXCEPT ![t] = [input |-> input]]
    /\ overlapped' = (overlapped \/ \E u \in Threads \ {t} : pc[u] # "idle")
    /\ UNCHANGED <<context, call, result, numbers, allocated, returned, trace,
                   created, forensics>>

\* next_id: r = GraphQLId(str(self._next_id))
ThreadReadId(t) ==
    /\ pc[t] = "next_id"
    /\ pc' = [pc EXCEPT ![t] = "next_id_load"]
    /\ frame' = [frame EXCEPT ![t] = [input |-> frame[t].input,
                                      id |-> ToString(LoadNextId(context))]]
    /\ allocated' = Append(allocated, ToString(LoadNextId(context)))
    /\ UNCHANGED <<context, call, result, numbers, returned, trace,
                   overlapped, created, forensics>>

\* next_id: the read of self._next_id += 1
ThreadLoadId(t) ==
    /\ pc[t] = "next_id_load"
    /\ pc' = [pc EXCEPT ![t] = "next_id_store"]
    /\ frame' = [frame EXCEPT ![t] = [input |-> frame[t].input, id |-> frame[t].id,
                                      loaded |-> LoadNextId(context)]]
    /\ UNCHANGED <<context, call, result, numbers, allocated, returned, trace,
                   overlapped, created, forensics>>

\* next_id: the write of self._next_id += 1
ThreadStoreId(t) ==
    /\ pc[t] = "next_id_store"
    /\ pc' = [pc EXCEPT ![t] = "repositories"]
    /\ context' = StoreNextId(context, frame[t].loaded)
    /\ frame' = [frame EXCEPT ![t] = [input |-> frame[t].input, id |-> frame[t].id]]
    /\ UNCHANGED <<call, result, numbers, allocated, returned, trace,
                   overlapped, created, forensics>>

\* repo = info.context.repositories[input['ownerId']]
ThreadRepository(t) ==
    /\ pc[t] = "repositories"
    /\ IF DictHas(context.repositories, frame[t].input.ownerId)
       THEN /\ pc' = [pc EXCEPT ![t] = "number"]
            /\ frame' = [frame EXCEPT ![t] =
                   [input |-> frame[t].input, id |-> frame[t].id,
                    repo |-> DictGet(context.repositories, frame[t].input.ownerId)]]
       ELSE /\ pc' = [pc EXCEPT ![t] = "idle"]
            /\ frame' = [frame EXCEPT ![t] = [input |-> None]]
    /\ UNCHANGED <<context, call, result, numbers, allocated, returned, trace,
                   overlapped, created, forensics>>

\* next_pull_request_number: r = GitHubNumber(self._next_pull_request_number[repo_id])
ThreadReadNumber(t) ==
    /\ pc[t] = "number"
    /\ IF DictHas(context._next_pull_request_number, frame[t].input.ownerId)
       THEN /\ pc' = [pc EXCEPT ![t] = "number_load"]
            /\ frame' = [frame EXCEPT ![t] =
                   [input |-> frame[t].input, id |-> frame[t].id, repo |-> frame[t].repo,
                    number |-> LoadNumber(context, frame[t].input.ownerId)]]
       ELSE /\ pc' = [pc EXCEPT ![t] = "idle"]
            /\ frame' = [frame EXCEPT ![t] = [input |-> None]]
    /\ UNCHANGED <<context, call, result, numbers, allocated, returned, trace,
                   overlapped, created, forensics>>

\* next_pull_request_number: the read of self._next_pull_request_number[repo_id] += 1
ThreadLoadNumber(t) ==
    /\ pc[t] = "number_load"
    /\ pc' = [pc EXCEPT ![t] = "number_store"]
    /\ frame' = [frame EXCEPT ![t] =
           [input |-> frame[t].input, id |-> frame[t].id, repo |-> frame[t].repo,
            number |-> frame[t].number,
            loaded |-> LoadNumber(context, frame[t].input.ownerId)]]
    /\ UNCHANGED <<context, call, result, numbers, allocated, returned, trace,
                   overlapped, created, forensics>>

\* next_pull_request_number: the write of self._next_pull_request_number[repo_id] += 1
ThreadStoreNumber(t) ==
    /\ pc[t] = "number_store"
    /\ pc' = [pc EXCEPT ![t] = "insert"]
    /\ context' = StoreNumber(context, frame[t].input.ownerId, frame[t].loaded)
    /\ frame' = [frame EXCEPT ![t] =
           [input |-> frame[t].input, id |-> frame[t].id, repo |-> frame[t].repo,
            number |-> frame[t].number]]
    /\ UNCHANGED <<call, result, numbers, allocated, returned, trace,
                   overlapped, created, forensics>>

\* pr = PullRequest(...); info.context.pull_requests[id] = pr; return the payload
ThreadInsert(t) ==
    /\ pc[t] = "insert"
    /\ LET input == frame[t].input
           pr == [kind |-> "PullRequest",
                  id |-> frame[t].id,
                  _repository |-> input.ownerId,
                  number |-> frame[t].number,
                  url |-> PullRequestUrl(frame[t].repo, frame[t].number),
                  baseRefName |-> input.baseRefName,
                  headRefName |-> input.headRefName,
                  title |-> input.title,
                  body |-> input.body]
       IN /\ context' = [context EXCEPT !.pull_requests = DictSet(@, frame[t].id, pr)]
          /\ created' = Append(created, pr)
    /\ pc' = [pc EXCEPT ![t] = "idle"]
    /\ frame' = [frame EXCEPT ![t] = [input |-> None]]
    /\ UNCHANGED <<call, result, numbers, allocated, returned, trace,
                   overlapped, forensics>>

ThreadsNext ==
    \/ \E t \in Threads, input \in ThreadInputs : ThreadCall(t, input)
    \/ \E t \in Threads : ThreadReadId(t)
    \/ \E t \in Threads : ThreadLoadId(t)
    \/ \E t \in Threads : ThreadStoreId(t)
    \/ \E t \in Threads : ThreadRepository(t)
    \/ \E t \in Threads : ThreadReadNumber(t)
    \/ \E t \in Threads : ThreadLoadNumber(t)
    \/ \E t \in Threads : ThreadStoreNumber(t)
    \/ \E t \in Threads : ThreadInsert(t)

\* the store called from two threads with no guard
ThreadsSpec == Init /\ [][ThreadsNext]_vars

(***************************************************************************)
(* forensics.py: main, up to the lines it prints.  The emoji of the source  *)
(* are written as words in brackets.                                       *)
(***************************************************************************)
\* None, where the other values are objects
Null == [null |-> TRUE]

\* CI_CONTEXT
CI_CONTEXT == "ci/circleci: pytorch_linux_xenial_py3_clang5_asan_test"

\* the literal prefix of CIRCLECI_URL_PATTERN
CIRCLECI_URL_PREFIX == "https://circleci.com/gh/pytorch/pytorch/"

\* the icons of the lines process_commit_node returns without a fetch: white
\* question mark and eggplant
IconQuestion == "[question]"
IconEggplant == "[eggplant]"

\* a CI context with the given state and target url; a url is its literal
\* prefix, the digits that follow it and the rest
CiContext(state, prefix, digits) ==
    [context |-> CI_CONTEXT, state |-> state,
     targetUrl |-> [prefix |-> prefix, digits |-> digits, rest |-> "?x=1"]]

\* a commit; an oid is its first 8 characters and the rest
Commit(head, headline, status) ==
    [commit |-> [oid |-> [first8 |-> head, rest |-> "0123456789abcdef0123456789abcdef"],
                 messageHeadline |-> headline, status |-> status]]

\* the commit nodes a response may hold: without status, with contexts of
\* another CI only, with a CI url that is not CircleCI's, with a build that
\* succeeded, with a build that failed, and with a CI context without url
CommitNodes ==
    {Commit("aaaaaaaa", "No status", Null),
     Commit("bbbbbbbb", "Other CI",
            [contexts |-> <<[context |-> "ci/travis", state |-> "SUCCESS",
                             targetUrl |-> Null]>>]),
     Commit("cccccccc", "Bad url",
            [contexts |-> <<CiContext("SUCCESS", "https://example.com/", "7")>>]),
     Commit("dddddddd", "Green",
            [contexts |-> <<[context |-> "ci/travis", state |-> "FAILURE",
                             targetUrl |-> Null],
                            CiContext("SUCCESS", CIRCLECI_URL_PREFIX, "101")>>]),
     Commit("eeeeeeee", "Red",
            [contexts |-> <<CiContext("FAILURE", CIRCLECI_URL_PREFIX, "102")>>]),
     Commit("ffffffff", "No url",
            [contexts |-> <<[context |-> CI_CONTEXT, state |-> "PENDING",
                             targetUrl |-> Null]>>])}

\* re_circleci_url.match(targetUrl): the match with its group 1, None without
\* a match, or the TypeError of a url that is None
MatchCircleciUrl(targetUrl) ==
    IF targetUrl = Null
    THEN Raise("TypeError", "expected string or bytes-like object")
    ELSE IF targetUrl.prefix = CIRCLECI_URL_PREFIX /\ targetUrl.digits # ""
    THEN Return([group1 |-> targetUrl.digits])
    ELSE Return(Null)

\* the loop of process_commit_node over the contexts from position i on, up
\* to its first await: a returned line, a raised exception, or the build whose
\* log it would await
RECURSIVE ScanContexts(_, _, _)
ScanContexts(commit, contexts, i) ==
    IF i > Len(contexts) THEN Return(IconQuestion \o " Unknown Status")
    ELSE IF contexts[i].context # CI_CONTEXT THEN ScanContexts(commit, contexts, i + 1)
    ELSE LET match == MatchCircleciUrl(contexts[i].targetUrl)
         IN IF match.kind = "raise" THEN match
            ELSE IF match.value = Null
            THEN Return(IconEggplant \o " " \o commit.oid.first8 \o " "
                        \o commit.messageHeadline)
            ELSE [kind |-> "await", build_id |-> match.value.group1, context |-> contexts[i]]

\* process_commit_node up to its first await
process_commit_node_start(node) ==
    LET commit == node.commit
    IN IF commit.status = Null
       THEN Return(IconQuestion \o " " \o commit.oid.first8 \o " "
                   \o commit.messageHeadline)
       ELSE ScanContexts(commit, commit.status.contexts, 1)

\* main is called: the store plays no part
ForensicsInit ==
    /\ context = GitHubStateInit
    /\ call = [op |-> "init"]
    /\ result = [kind |-> "none"]
    /\ numbers = <<>>
    /\ allocated = <<>>
    /\ returned = {}
    /\ trace = <<>>
    /\ pc = [t \in Threads |-> "idle"]
    /\ frame = [t \in Threads |-> [input |-> None]]
    /\ overlapped = FALSE
    /\ created = <<>>
    /\ nodes \in {<<>>} \cup SeqsUpTo(CommitNodes, MaxNodes)
    /\ main_pc = "graphql"
    /\ printed = <<>>

\* the frame of the steps of forensics
ForensicsFrame ==
    UNCHANGED <<context, call, result, numbers, allocated, returned, trace, threads, nodes>>

\* response = await github.graphql(query, **params) returns, and nodes is
\* bound to the commit nodes of the response
MainGraphql ==
    /\ main_pc = "graphql"
    /\ main_pc' = "gather"
    /\ UNCHANGED printed
    /\ ForensicsFrame

\* await github.graphql(query, **params) raises, and the handler prints it
MainGraphqlRaises ==
    /\ main_pc = "graphql"
    /\ main_pc' = "failed"
    /\ printed' = <<"Error processing pull request: " \o "GraphQL query failed">>
    /\ ForensicsFrame

\* results = await asyncio.gather(...): the module imports re, aiohttp,
\* typing and ghstack only, so the name asyncio is unbound; its evaluation,
\* which precedes that of the arguments, raises NameError before any
\* process_commit_node is called, and the handler prints it
MainGather ==
    /\ main_pc = "gather"
    /\ main_pc' = "failed"
    /\ printed' = <<"Error processing pull request: " \o "name 'asyncio' is not defined">>
    /\ ForensicsFrame

ForensicsNext ==
    \/ MainGraphql
    \/ MainGraphqlRaises
    \/ MainGather

\* forensics.main
ForensicsSpec == ForensicsInit /\ [][ForensicsNext]_vars

(***************************************************************************)
(* Properties                                                              *)
(***************************************************************************)
\* the pull requests of the store, in iteration order
StoredPullRequests == DictValues(context.pull_requests)

\* the repositories of the store, in iteration order
StoredRepositories == DictValues(context.repositories)

\* the numbers that successful createPullRequest calls for repo_id returned
NumbersReturnedFor(repo_id) ==
    SelectSeq(numbers, LAMBDA e : e.repository = repo_id)

\* C1: the numbers returned by the successful createPullRequest calls that
\* target one repository are 500, 501, 502, ... in call order, whatever
\* updates, queries and failed createPullRequest calls come between them.
C1_NumbersCountUpFromSeed ==
    /\ \A e \in {numbers[i] : i \in 1..Len(numbers)} :
           LET ns == NumbersReturnedFor(e.repository)
           IN \A i \in 1..Len(ns) : ns[i].number = FirstPullRequestNumber + (i - 1)
    /\ (call.op = "createPullRequest" /\ result.kind = "return")
           => /\ Len(numbers) > 0
              /\ numbers[Len(numbers)].number = result.value.pullRequest.number
              /\ numbers[Len(numbers)].repository = call.input.ownerId

\* C1 witness: 500 and 501 were returned with a failed createPullRequest
\* (which took the identifier 5001) and an updatePullRequest between them.
C1_Witness ==
    /\ Len(numbers) = 2
    /\ numbers[1].number = 500
    /\ numbers[2].number = 501
    /\ Len(allocated) = 3
    /\ Len(StoredPullRequests) = 2
    /\ StoredPullRequests[1].id = "5000"
    /\ StoredPullRequests[2].id = "5002"
    /\ call.op = "createPullRequest"
    /\ result.kind = "return"
    /\ result.value.pullRequest.number = 501

\* C2: identifiers are pairwise distinct across both entity kinds, and
\* next_id never hands out an identifier twice.
C2_IdentifiersDistinct ==
    /\ \A i, j \in 1..Len(StoredPullRequests) :
           i # j => StoredPullRequests[i].id # StoredPullRequests[j].id
    /\ \A i, j \in 1..Len(StoredRepositories) :
           i # j => StoredRepositories[i].id # StoredRepositories[j].id
    /\ \A i \in 1..Len(StoredPullRequests), j \in 1..Len(StoredRepositories) :
           StoredPullRequests[i].id # StoredRepositories[j].id
    /\ \A i, j \in 1..Len(allocated) : i # j => allocated[i] # allocated[j]
    /\ \A i \in 1..Len(allocated) : allocated[i] # SeedRepositoryId

\* C2 witness: three identifiers handed out, two pull requests stored.
C2_Witness ==
    /\ Len(allocated) = 3
    /\ Len(StoredPullRequests) = 2
    /\ Len(StoredRepositories) = 1

\* whether an update input sets the field f: present and not None
InputSets(input, f) == f \in DOMAIN input /\ input[f] # None

\* C3: a successful updatePullRequest sets, on the targeted pull request,
\* title, baseRefName and body to the supplied value where the input has the
\* field present and non-null, and leaves each of them as it was otherwise;
\* with none of the three set the entity is unchanged.
C3_UpdateAppliesSetFields ==
    [][(call'.op = "updatePullRequest" /\ result'.kind = "return")
         => LET input == call'.input
                before == DictGet(context.pull_requests, input.pullRequestId)
                after == DictGet(context'.pull_requests, input.pullRequestId)
            IN /\ DictHas(context.pull_requests, input.pullRequestId)
               /\ DictHas(context'.pull_requests, input.pullRequestId)
               /\ \A f \in {"title", "baseRefName", "body"} :
                      after[f] = IF InputSets(input, f) THEN input[f] ELSE before[f]
               /\ (\A f \in {"title", "baseRefName", "body"} : ~InputSets(input, f))
                      => after = before
               /\ result'.value.pullRequest = after]_vars

\* C3 witness: an update with title set, body null and baseRefName absent
\* returned the pull request with the new title and the old body and base.
C3_Witness ==
    /\ call.op = "updatePullRequest"
    /\ result.kind = "return"
    /\ "title" \in DOMAIN call.input
    /\ call.input.title = "T2"
    /\ "body" \in DOMAIN call.input
    /\ call.input.body = None
    /\ "baseRefName" \notin DOMAIN call.input
    /\ result.value.pullRequest.title = "T2"
    /\ result.value.pullRequest.body = "B"
    /\ result.value.pullRequest.baseRefName = "main"

\* the nodes of the seeded repository's pullRequests in the state s
SeedPullRequests(s) == Repository_pullRequests(s, SeedRepository).value.nodes

\* C4: the seeded repository's pullRequests list starts empty; a successful
\* createPullRequest for it appends exactly the new pull request; every other
\* call leaves its length and order as they were.
C4_PullRequestsInCreationOrder ==
    /\ Repository_pullRequests(context, SeedRepository) = Return([nodes |-> <<>>])
    /\ [][LET before == SeedPullRequests(context)
              after == SeedPullRequests(context')
          IN /\ Repository_pullRequests(context', SeedRepository).kind = "return"
             /\ IF /\ call'.op = "createPullRequest"
                   /\ result'.kind = "return"
                   /\ call'.input.ownerId = SeedRepositoryId
                THEN after = Append(before, result'.value.pullRequest)
                ELSE /\ Len(after) = Len(before)
                     /\ \A i \in 1..Len(before) : after[i].id = before[i].id]_vars

\* C4 witness: the list holds the two pull requests in creation order, the
\* second one just created.
C4_Witness ==
    /\ call.op = "createPullRequest"
    /\ result.kind = "return"
    /\ Len(SeedPullRequests(context)) = 2
    /\ SeedPullRequests(context)[1].number = 500
    /\ SeedPullRequests(context)[2].number = 501
    /\ SeedPullRequests(context)[2] = result.value.pullRequest

\* C5: node(id) of every entity returned so far by repository(...) or in a
\* mutation payload succeeds with that entity: same kind, same identifier,
\* and the attribute values of its latest payload.
C5_NodeFindsReturnedEntities ==
    /\ \A e \in returned : Root_node(context, e.id) = Return(e)
    /\ call.op = "node" /\ (\E e \in returned : e.id = call.id)
           => \E e \in returned : result = Return(e)

\* C5 witness: node(id) returned an updated pull request that a payload
\* carried, after repository(...) returned the seeded repository.
C5_Witness ==
    /\ call.op = "node"
    /\ result.kind = "return"
    /\ result.value.kind = "PullRequest"
    /\ result.value.title = "T2"
    /\ result.value \in returned
    /\ SeedRepository \in returned

\* C6: every pull request in the store has the url
\* "https://github.com/" + its repository's nameWithOwner + "/pull/" + number;
\* number 500 of the seeded repository has .../pytorch/pytorch/pull/500.
C6_UrlFromRepositoryAndNumber ==
    \A i \in 1..Len(StoredPullRequests) :
        LET pr == StoredPullRequests[i]
        IN /\ DictHas(context.repositories, pr._repository)
           /\ pr.url = "https://github.com/"
                       \o DictGet(context.repositories, pr._repository).nameWithOwner
                       \o "/pull/" \o ToString(pr.number)
           /\ (pr.number = 500 /\ pr._repository = SeedRepositoryId)
                  => pr.url = "https://github.com/pytorch/pytorch/pull/500"

\* C6 witness: after a later update, the pull requests 500 and 501 still have
\* their urls.
C6_Witness ==
    /\ call.op = "updatePullRequest"
    /\ result.kind = "return"
    /\ Len(StoredPullRequests) = 2
    /\ StoredPullRequests[1].url = "https://github.com/pytorch/pytorch/pull/500"
    /\ StoredPullRequests[2].url = "https://github.com/pytorch/pytorch/pull/501"
    /\ StoredPullRequests[2].body = "B2"

\* C7: updatePullRequest of an identifier that is no pull request of the
\* store raises, returns no payload and leaves the whole store unchanged.
C7_UpdateOfUnknownIdRaises ==
    [][(/\ call'.op = "updatePullRequest"
        /\ ~DictHas(context.pull_requests, call'.input.pullRequestId))
         => /\ result'.kind = "raise"
            /\ context' = context]_vars

\* C7 witness: an update that sets all three fields failed on the
\* identifier 5001, which a failed createPullRequest took, in a store that
\* holds pull requests.
C7_Witness ==
    /\ call.op = "updatePullRequest"
    /\ result.kind = "raise"
    /\ call.input.pullRequestId = "5001"
    /\ InputSets(call.input, "title")
    /\ InputSets(call.input, "baseRefName")
    /\ InputSets(call.input, "body")
    /\ Len(StoredPullRequests) = 2
    /\ Len(allocated) = 3

\* C8: node(id) of an identifier that is neither a repository's nor a pull
\* request's raises a lookup failure naming the id ("unknown id 9999" for
\* "9999") and leaves the store unchanged.
C8_NodeOfUnknownIdRaises ==
    [][(/\ call'.op = "node"
        /\ ~DictHas(context.repositories, call'.id)
        /\ ~DictHas(context.pull_requests, call'.id))
         => /\ result' = Raise("RuntimeError", "unknown id " \o call'.id)
            /\ call'.id = "9999" => result'.msg = "unknown id 9999"
            /\ context' = context]_vars

\* C8 witness: node("9999") raised in a store that holds two pull requests.
C8_Witness ==
    /\ call.op = "node"
    /\ call.id = "9999"
    /\ result.kind = "raise"
    /\ result.msg = "unknown id 9999"
    /\ Len(StoredPullRequests) = 2

\* the messages msgs[1..n], one per line
RECURSIVE OnePerLine(_, _)
OnePerLine(msgs, n) ==
    IF n = 0 THEN ""
    ELSE IF n = 1 THEN msgs[1]
    ELSE OnePerLine(msgs, n - 1) \o "\n" \o msgs[n]

\* the messages of the resolver calls of the last graphql() that raised
RaisedMessages ==
    LET raised == SelectSeq(trace, LAMBDA e : e.outcome.kind = "raise")
    IN [i \in 1..Len(raised) |-> raised[i].outcome.msg]

\* the fields of a document that its operation's root type does not have
UnknownFields(document) ==
    SelectSeq(document.fields, LAMBDA f : f.name \notin RootFields(document.operation))

\* C9: graphql() either returns {'data': tree}, when validation and every
\* resolver succeeded, or raises one failure whose message carries every
\* error message, one per line; it returns no data when an error occurred,
\* and each selected root field is resolved once, in order, or not at all
\* when the document is invalid.
C9_GraphqlReturnsDataOrRaisesAll ==
    call.op = "graphql" =>
        LET document == call.document
            unknown == UnknownFields(document)
            messages == IF Len(unknown) > 0
                        THEN [i \in 1..Len(unknown) |->
                                 "Cannot query field '" \o unknown[i].name \o "'."]
                        ELSE RaisedMessages
        IN /\ result.kind \in {"return", "raise"}
           /\ (result.kind = "return") <=> (Len(messages) = 0)
           /\ result.kind = "return"
                  => /\ DOMAIN result.value = {"data"}
                     /\ Len(result.value.data) = Len(document.fields)
                     /\ \A i \in 1..Len(trace) : result.value.data[i] = trace[i].outcome
           /\ result.kind = "raise"
                  => /\ result.exc = "RuntimeError"
                     /\ result.msg = "GraphQL query failed with errors:\n\n"
                                     \o OnePerLine(messages, Len(messages))
           /\ IF Len(unknown) > 0 THEN trace = <<>>
              ELSE /\ Len(trace) = Len(document.fields)
                   /\ \A i \in 1..Len(trace) : trace[i].field = document.fields[i]

\* C9 witness: a mutation whose two resolvers both raised ended in one
\* failure that carries both messages.
C9_Witness ==
    /\ call.op = "graphql"
    /\ call.document.operation = "mutation"
    /\ Len(trace) = 2
    /\ trace[1].outcome.kind = "raise"
    /\ trace[2].outcome.kind = "raise"
    /\ trace[1].outcome.msg # trace[2].outcome.msg
    /\ result.kind = "raise"
    /\ result.msg = "GraphQL query failed with errors:\n\n'9999'\n'5001'"
    /\ Len(StoredPullRequests) = 1

\* C11: a createPullRequest whose ownerId is no repository of the store
\* raises and leaves the whole store unchanged, the identifier counter
\* included.
C11_FailedCreateLeavesStoreUnchanged ==
    [][(/\ call'.op = "createPullRequest"
        /\ ~DictHas(context.repositories, call'.input.ownerId))
         => /\ result'.kind = "raise"
            /\ context' = context]_vars

\* C12: the owning-repository reference of every pull request in the store
\* is the identifier of a repository in the store, so PullRequest.repository
\* succeeds on it.
C12_RepositoryReferencesResolve ==
    \A i \in 1..Len(StoredPullRequests) :
        /\ DictHas(context.repositories, StoredPullRequests[i]._repository)
        /\ PullRequest_repository(context, StoredPullRequests[i]).kind = "return"
        /\ PullRequest_repository(context, StoredPullRequests[i]).value.id
               = StoredPullRequests[i]._repository

\* C12 witness: two pull requests are stored, after a createPullRequest for
\* an unknown ownerId failed.
C12_Witness ==
    /\ Len(StoredPullRequests) = 2
    /\ call.op = "createPullRequest"
    /\ call.input.ownerId = UnknownId
    /\ result.kind = "raise"

\* C13: updatePullRequest leaves the target's identifier, number,
\* headRefName, url and owning-repository reference, every other pull
\* request, the set and order of the pull requests, the repositories and both
\* counters as they were.
C13_UpdateFrame ==
    [][call'.op = "updatePullRequest"
         => LET before == DictValues(context.pull_requests)
                after == DictValues(context'.pull_requests)
            IN /\ Len(after) = Len(before)
               /\ \A i \in 1..Len(before) :
                      /\ context'.pull_requests[i].key = context.pull_requests[i].key
                      /\ after[i].kind = before[i].kind
                      /\ after[i].id = before[i].id
                      /\ after[i].number = before[i].number
                      /\ after[i].headRefName = before[i].headRefName
                      /\ after[i].url = before[i].url
                      /\ after[i]._repository = before[i]._repository
                      /\ before[i].id # call'.input.pullRequestId => after[i] = before[i]
               /\ context'.repositories = context.repositories
               /\ context'._next_id = context._next_id
               /\ context'._next_pull_request_number = context._next_pull_request_number]_vars

\* C13 witness: an update set all three fields of pull request 5001 while
\* pull request 5000 is stored beside it.
C13_Witness ==
    /\ call.op = "updatePullRequest"
    /\ result.kind = "return"
    /\ InputSets(call.input, "title")
    /\ InputSets(call.input, "baseRefName")
    /\ InputSets(call.input, "body")
    /\ Len(StoredPullRequests) = 2
    /\ StoredPullRequests[1].id = "5000"
    /\ StoredPullRequests[1].title = "T"
    /\ StoredPullRequests[2].id = "5001"
    /\ StoredPullRequests[2].baseRefName = "dev"
    /\ StoredPullRequests[2].headRefName = "feature"
    /\ StoredPullRequests[2].number = 501

\* the store holds exactly the seeded repository
OnlySeedRepository(s) ==
    /\ Len(s.repositories) = 1
    /\ s.repositories[1].key = "1000"
    /\ s.repositories[1].value.kind = "Repository"
    /\ s.repositories[1].value.id = "1000"
    /\ s.repositories[1].value.name = "pytorch"
    /\ s.repositories[1].value.nameWithOwner = "pytorch/pytorch"
    /\ DOMAIN s.repositories[1].value = {"kind", "id", "name", "nameWithOwner"}

\* C14: the store always holds exactly the seed repository, with id "1000",
\* name "pytorch" and nameWithOwner "pytorch/pytorch", and no step removes a
\* pull request.
C14_RepositoriesFixedPullRequestsKept ==
    /\ OnlySeedRepository(context)
    /\ [][/\ OnlySeedRepository(context')
          /\ \A i \in 1..Len(context.pull_requests) :
                 \E j \in 1..Len(context'.pull_requests) :
                     /\ context'.pull_requests[j].key = context.pull_requests[i].key
                     /\ context'.pull_requests[j].value.id
                            = context.pull_requests[i].value.id]_vars

\* C14 witness: two pull requests and the seed repository are stored after
\* an update succeeded and a later createPullRequest failed.
C14_Witness ==
    /\ OnlySeedRepository(context)
    /\ Len(StoredPullRequests) = 2
    /\ StoredPullRequests[2].title = "T2"
    /\ call.op = "createPullRequest"
    /\ result.kind = "raise"
    /\ Len(allocated) = 3

\* the positions of the pull requests of repository R with number n
Matches(R, n) ==
    {i \in 1..Len(StoredPullRequests) :
        StoredPullRequests[i]._repository = R.id /\ StoredPullRequests[i].number = n}

\* C15: Repository.pullRequest(n) of a repository R returns the pull request
\* whose owning-repository reference is R's identifier and whose number is n,
\* of which there is at most one, and otherwise raises a failure that names n
\* and R's full name.
C15_PullRequestByNumber ==
    /\ \A i \in 1..Len(StoredRepositories), n \in QueryNumbers :
           LET R == StoredRepositories[i]
               r == Repository_pullRequest(context, R, n)
           IN /\ Cardinality(Matches(R, n)) <= 1
              /\ \A m \in Matches(R, n) : r = Return(StoredPullRequests[m])
              /\ Matches(R, n) = {}
                     => r = Raise("RuntimeError",
                                  "unrecognized pull request #" \o ToString(n)
                                  \o " in repository " \o R.nameWithOwner)
    /\ (call.op = "pullRequest" /\ call.owner = "pytorch" /\ call.name = "pytorch")
           => /\ \A m \in Matches(SeedRepository, call.number) :
                     /\ result = Return(StoredPullRequests[m])
                     /\ result.value.number = call.number
                     /\ result.value._repository = "1000"
              /\ Matches(SeedRepository, call.number) = {} => result.kind = "raise"
              /\ (Matches(SeedRepository, call.number) = {} /\ call.number = 502)
                     => result.msg
                            = "unrecognized pull request #502 in repository pytorch/pytorch"

\* C15 witness: pullRequest(501) returned the second pull request of the
\* seeded repository, which has the identifier 5002.
C15_Witness ==
    /\ call.op = "pullRequest"
    /\ call.number = 501
    /\ result.kind = "return"
    /\ result.value.number = 501
    /\ result.value.id = "5002"
    /\ Len(StoredPullRequests) = 2

\* the payload of a successful mutation echoes the input's clientMutationId,
\* None when the input has none
EchoesClientMutationId(c, r) ==
    (c.op \in {"createPullRequest", "updatePullRequest"} /\ r.kind = "return")
        => r.value.clientMutationId
               = IF "clientMutationId" \in DOMAIN c.input
                 THEN c.input.clientMutationId ELSE None

\* C16: the payloads of createPullRequest and updatePullRequest carry the
\* input's clientMutationId (None when absent), and a createPullRequest that
\* repeats the previous successful one, clientMutationId included, creates
\* another pull request with another identifier and the next number.
C16_ClientMutationIdPassThrough ==
    /\ EchoesClientMutationId(call, result)
    /\ [][/\ EchoesClientMutationId(call', result')
          /\ (/\ call.op = "createPullRequest"
              /\ result.kind = "return"
              /\ call' = call
              /\ result'.kind = "return")
                 => /\ result'.value.pullRequest.id # result.value.pullRequest.id
                    /\ result'.value.pullRequest.number
                           = result.value.pullRequest.number + 1
                    /\ result'.value.clientMutationId = result.value.clientMutationId
                    /\ Len(context'.pull_requests) = Len(context.pull_requests) + 1
                    /\ DictHas(context'.pull_requests, result.value.pullRequest.id)
                    /\ DictHas(context'.pull_requests, result'.value.pullRequest.id)]_vars

\* C16 witness: a createPullRequest with the token "m1" returned pull
\* request 501 with that token, beside pull request 500 of the same inputs.
C16_Witness ==
    /\ call.op = "createPullRequest"
    /\ "clientMutationId" \in DOMAIN call.input
    /\ result.kind = "return"
    /\ result.value.clientMutationId = "m1"
    /\ result.value.pullRequest.number = 501
    /\ Len(StoredPullRequests) = 2
    /\ StoredPullRequests[1].number = 500
    /\ StoredPullRequests[1].title = result.value.pullRequest.title
    /\ StoredPullRequests[1].body = result.value.pullRequest.body
    /\ StoredPullRequests[1].baseRefName = result.value.pullRequest.baseRefName
    /\ StoredPullRequests[1].headRefName = result.value.pullRequest.headRefName
    /\ StoredPullRequests[1].id # result.value.pullRequest.id

\* C17: next_pull_request_number of a repository id that has no counter
\* raises instead of returning a number, creates no counter for that id and
\* changes no counter.
C17_UnseededNumberRaises ==
    [][(/\ call'.op = "next_pull_request_number"
        /\ ~DictHas(context._next_pull_request_number, call'.repo_id))
         => /\ result' = Raise("KeyError", "'" \o call'.repo_id \o "'")
            /\ ~DictHas(context'._next_pull_request_number, call'.repo_id)
            /\ context'._next_pull_request_number = context._next_pull_request_number
            /\ context' = context]_vars

\* C17 witness: next_pull_request_number("9999") raised after the seeded
\* repository's counter had advanced to 501, and the counters hold only the
\* seeded repository's entry.
C17_Witness ==
    /\ call.op = "next_pull_request_number"
    /\ call.repo_id = "9999"
    /\ result.kind = "raise"
    /\ result.exc = "KeyError"
    /\ context._next_pull_request_number = <<[key |-> "1000", value |-> 501]>>

\* two of the pull requests the threads' calls returned share an identifier
SameIdentifierCreated ==
    \E i, j \in 1..Len(created) : i # j /\ created[i].id = created[j].id

\* two of the pull requests the threads' calls returned share a repository
\* and a number
SameNumberCreated ==
    \E i, j \in 1..Len(created) :
        /\ i # j
        /\ created[i]._repository = created[j]._repository
        /\ created[i].number = created[j].number

\* C18: with the reads and writes of two createPullRequest calls interleaved,
\* two created pull requests can get the same identifier or number (the
\* witness); as long as no call began while another was running, they never
\* do, and every created pull request is in the store.
C18_SerializedCallsNeverCollide ==
    ~overlapped
        => /\ ~SameIdentifierCreated
           /\ ~SameNumberCreated
           /\ Len(context.pull_requests) = Len(created)
           /\ \A i \in 1..Len(created) :
                  /\ DictHas(context.pull_requests, created[i].id)
                  /\ DictGet(context.pull_requests, created[i].id) = created[i]

\* C18 witness: two overlapping calls returned pull requests with the same
\* identifier and the same number, and the store holds only one of them.
C18_Witness ==
    /\ overlapped
    /\ Len(created) = 2
    /\ created[1].id = created[2].id
    /\ created[1].number = created[2].number
    /\ Len(context.pull_requests) = 1
    /\ \A t \in Threads : pc[t] = "idle"


\* whether process_commit_node returns the node's line without awaiting a fetch
ReturnsAtOnce(node) == process_commit_node_start(node).kind = "return"

\* whether process_commit_node raises on the node
RaisesOn(node) == process_commit_node_start(node).kind = "raise"

\* C19: when the GraphQL query returned and no process_commit_node raises,
\* main prints exactly one line per commit node, in the order of the nodes of
\* the response, each node's line being the text of that node
C19_OneLinePerNodeInOrder ==
    [][(main_pc = "gather" /\ main_pc' # "gather"
        /\ \A i \in 1..Len(nodes) : ~RaisesOn(nodes[i]))
           => /\ Len(printed') = Len(nodes)
              /\ \A i \in 1..Len(nodes) :
                     ReturnsAtOnce(nodes[i])
                         => printed'[i] = process_commit_node_start(nodes[i]).value]_vars

====
